---- MODULE Spec2Model ----
(***************************************************************************)
(* Device_Helper of ti-appium (src/device.js): killSim and its shutdown    *)
(* poller isShutdown, getSimState, killEmu, getCert, getProfile and the    *)
(* private resolvers getState, getUdid, getAndroidPID.                     *)
(*                                                                         *)
(* JavaScript strings that are only compared for equality are TLA+         *)
(* strings; strings that are searched with String.includes are sequences   *)
(* of string chunks.  An error message is the sequence of the chunks of    *)
(* its template, the interpolated arguments included.                      *)
(***************************************************************************)
EXTENDS Integers, Sequences, FiniteSets, TLC

\* ------------------------------------------------------------------ bounds
\* most state checks of one poll that may raise an error
MaxTickErrors == 1
\* most entries of one version bucket of the `ti info` output
MaxSims == 2
\* most processes in the list returned by ps-list
MaxProcs == 2
\* most certificates (provisioning profiles) of one type returned by ioslib
MaxCerts == 2
\* WebDriver clients a test process creates, Appium servers it starts
MaxDrivers == 2
MaxServers == 2
\* characters of a text passed to a text-matching command
MaxText == 3
\* characters of a search term, entries of a device log
MaxTerm == 2
MaxLog == 2

\* ------------------------------------------------------------ JS values
Undefined == "undefined"
NoValue == "<no value>"

\* variant: only a missing argument is rejected, an empty string passes
Falsy_undefinedOnly(x) == x = Undefined

\* `!x` for a string or undefined argument
Falsy(x) == x = "" \/ x = Undefined

Ok(v) == [status |-> "ok", val |-> v, err |-> <<>>]
Throw(e) == [status |-> "error", val |-> NoValue, err |-> e]
Pending == [status |-> "pending", val |-> NoValue, err |-> <<>>]
NoResult == [status |-> "none", val |-> NoValue, err |-> <<>>]

\* --------------------------------------------------------- error messages
ErrEmptyName == <<"Empty simulator name argument passed">>
ErrEmptyVersion == <<"Empty simulator version passed">>
ConfiguredHint == "do you have this simulator configured?"
ErrUdidIssue(simName, simVersion) ==
    <<"An issue occured trying to find the UDID of iOS simulator", simName, simVersion, ConfiguredHint>>
ErrUdidCannotFind(simName, simVersion) ==
    <<"Cannot find a UDID for simulator", simName, simVersion>>
ErrStateIssue(simName, simVersion) ==
    <<"An issue occured trying to get the boot status of iOS simulator", simName, simVersion, ConfiguredHint>>
ErrStateCannotRetrieve(simName, simVersion) ==
    <<"Cannot retrieve a status for simulator", simName, simVersion>>
ErrTimeout == <<"iOS simulator didn't shutdown in expected time, you may expierience instability">>
\* what child_process.execSync raises when the command exits non-zero
ErrExec(cmd) == <<"Command failed">> \o cmd

\* ------------------------------------------------------ external commands
TiInfoCmd == <<"ti info -t ios -o json">>
XcrunListCmd == <<"xcrun simctl list --json">>
ShutdownCmd(udid) == <<"xcrun simctl shutdown", udid>>
KillallCmd == <<"killall", "Simulator">>

\* ----------------------------------------------------------------- inputs
SimNames == {"iPhone 7", "iPhone 8"}
SimVersions == {"12.2", "13.0", "12"}
Udids == {"U1", "U2"}
SimStates == {"Booted", "Shutdown", "Shutting Down"}
NameArgs == SimNames \cup {"", Undefined}
VersionArgs == SimVersions \cup {"", Undefined}
\* the opts argument of killSim with its defaults applied: the defaults
\* themselves, and a caller who waits 0 ms and then 10 ms
DefaultInitialWait == 10000
DefaultIntervalWait == 5000
WaitOpts == {[initialWait |-> DefaultInitialWait, intervalWait |-> DefaultIntervalWait],
             [initialWait |-> 0, intervalWait |-> 10]}

SeqsUpTo(S, n) == UNION {[1..k -> S] : k \in 0..n}

\* the simulators section of `ti info -t ios -o json`: version -> entries
TiEntries == [name : SimNames, udid : Udids]
TiBuckets == SeqsUpTo(TiEntries, MaxSims)
TiOutputs ==
    {[ok |-> FALSE, sims |-> <<>>]}
    \cup {[ok |-> TRUE, sims |-> <<>>]}
    \cup {[ok |-> TRUE, sims |-> [v \in {"12.2"} |-> b]] : b \in TiBuckets}
    \cup {[ok |-> TRUE, sims |-> [v \in {"12.2", "13.0"} |->
              IF v = "12.2" THEN <<[name |-> "iPhone 7", udid |-> "U1"]>>
                            ELSE <<[name |-> "iPhone 7", udid |-> "U2"]>>]]}

\* the iOS simulator registry exists on macOS only: elsewhere `ti info -t ios` fails
TiOutputsOn(os) == IF os = "darwin" THEN TiOutputs ELSE {[ok |-> FALSE, sims |-> <<>>]}

\* simVersion.split('.') on the versions above
VersionParts(simVersion) ==
    CASE simVersion = "12.2" -> <<"12", "2">>
      [] simVersion = "13.0" -> <<"13", "0">>
      [] OTHER -> <<simVersion>>
Part(parts, i) == IF i <= Len(parts) THEN parts[i] ELSE Undefined
RuntimeKey(simVersion) ==
    <<"com.apple.CoreSimulator.SimRuntime.iOS",
      Part(VersionParts(simVersion), 1), Part(VersionParts(simVersion), 2)>>

\* the devices section of `xcrun simctl list --json`: runtime -> entries
XcrunOutputs ==
    {[ok |-> FALSE, devices |-> <<>>]}
    \cup {[ok |-> TRUE, devices |-> <<>>]}
    \cup {[ok |-> TRUE, devices |-> [k \in {RuntimeKey("12.2")} |->
              <<[udid |-> u, state |-> s]>>]] : u \in Udids, s \in SimStates}

\* ---------------------------------------------------------------- getUdid
\* variant: the first entry of the bucket, whatever its name
FirstNamed_anyEntry(tiSims, simName, i) == IF i > Len(tiSims) THEN 0 ELSE i

\* index of the first entry of tiSims from i on whose name is simName, or 0
RECURSIVE FirstNamed(_, _, _)
FirstNamed(tiSims, simName, i) ==
    IF i > Len(tiSims) THEN 0
    ELSE IF tiSims[i].name = simName THEN i
    ELSE FirstNamed(tiSims, simName, i + 1)

\* variant: a missing version bucket is read as an empty one
GetUdid_missingAsEmpty(simName, simVersion, tiOut) ==
    IF ~tiOut.ok THEN Throw(ErrExec(TiInfoCmd))
    ELSE IF simVersion \notin DOMAIN tiOut.sims
         THEN Throw(ErrUdidCannotFind(simName, simVersion))
    ELSE LET tiSims == tiOut.sims[simVersion]
             i == FirstNamed(tiSims, simName, 1)
         IN IF i > 0 THEN Ok(tiSims[i].udid)
            ELSE Throw(ErrUdidCannotFind(simName, simVersion))

GetUdid(simName, simVersion, tiOut) ==
    IF ~tiOut.ok THEN Throw(ErrExec(TiInfoCmd))
    ELSE IF simVersion \notin DOMAIN tiOut.sims
         THEN Throw(ErrUdidIssue(simName, simVersion))
    ELSE LET tiSims == tiOut.sims[simVersion]
             i == FirstNamed(tiSims, simName, 1)
         IN IF i > 0 THEN Ok(tiSims[i].udid)
            ELSE Throw(ErrUdidCannotFind(simName, simVersion))

\* --------------------------------------------------------------- getState
RECURSIVE FirstUdid(_, _, _)
FirstUdid(xcrunSims, udid, i) ==
    IF i > Len(xcrunSims) THEN 0
    ELSE IF xcrunSims[i].udid = udid THEN i
    ELSE FirstUdid(xcrunSims, udid, i + 1)

\* the result of getState and the external commands it ran
GetState(simName, simVersion, tiOut, xcrunOut) ==
    LET udid == GetUdid(simName, simVersion, tiOut)
        key == RuntimeKey(simVersion)
    IN IF udid.status = "error" THEN [res |-> udid, cmds |-> <<TiInfoCmd>>]
       ELSE [cmds |-> <<TiInfoCmd, XcrunListCmd>>,
             res |->
               IF ~xcrunOut.ok THEN Throw(ErrExec(XcrunListCmd))
               ELSE IF key \notin DOMAIN xcrunOut.devices
                    THEN Throw(ErrStateIssue(simName, simVersion))
               ELSE LET xcrunSims == xcrunOut.devices[key]
                        i == FirstUdid(xcrunSims, udid.val, 1)
                    IN IF i > 0 THEN Ok(xcrunSims[i].state)
                       ELSE Throw(ErrStateCannotRetrieve(simName, simVersion))]

\* ---------------------------------------------------------- getAndroidPID
\* String.prototype.includes on chunked strings: t occurs in s
Includes(s, t) ==
    \E i \in 0..(Len(s) - Len(t)) : SubSeq(s, i + 1, i + Len(t)) = t

QemuName == <<"qemu-system-x86_64">>
ErrAndroidPID(deviceName) == <<"Cannot find an Android PID for">> \o deviceName
PsListCmd == <<"ps-list">>
TaskkillCmd(pid) == <<"taskkill /F /PID", pid>>
KillCmd(pid) == <<"kill -9", pid>>

DeviceNames == {<<"Pixel">>, <<"Pixel", "_2">>, <<"Nexus">>, <<>>}
ProcKinds ==
    {[name |-> <<"qemu-system-x86_64", ".exe">>, cmd |-> <<>>],
     [name |-> <<"qemu-system-x86_64">>,
      cmd |-> <<"/sdk/emulator/qemu/", "qemu-system-x86_64", " -avd ", "Pixel", "_2">>],
     [name |-> <<"qemu-system-x86_64">>,
      cmd |-> <<"/sdk/emulator/qemu/", "qemu-system-x86_64", " -avd ", "Nexus">>],
     [name |-> <<"adb">>, cmd |-> <<"adb", " -s ", "Pixel">>]}
Pid(i) == ToString(100 + i)
PsOutputs ==
    {[ok |-> FALSE, list |-> <<>>]}
    \cup {[ok |-> TRUE,
           list |-> [i \in DOMAIN ks |-> [pid |-> Pid(i), name |-> ks[i].name, cmd |-> ks[i].cmd]]] :
          ks \in SeqsUpTo(ProcKinds, MaxProcs)}

\* variant: the device name is searched in the command line on every platform
ProcMatches_cmdOnly(x, deviceName, os) == Includes(x.cmd, deviceName)

\* the callback given to list.find
ProcMatches(x, deviceName, os) ==
    IF os = "win32" THEN Includes(x.name, QemuName)
    ELSE Includes(x.cmd, deviceName)

\* Array.prototype.find: index of the first match from i on, or 0
RECURSIVE FindProc(_, _, _, _)
FindProc(list, deviceName, os, i) ==
    IF i > Len(list) THEN 0
    ELSE IF ProcMatches(list[i], deviceName, os) THEN i
    ELSE FindProc(list, deviceName, os, i + 1)

GetAndroidPID(deviceName, psOut, os) ==
    IF ~psOut.ok THEN Throw(ErrAndroidPID(deviceName))
    ELSE LET i == FindProc(psOut.list, deviceName, os, 1)
         IN IF i = 0 THEN Throw(ErrAndroidPID(deviceName))
            ELSE Ok(psOut.list[i].pid)

\* ----------------------------------------------------- getCert, getProfile
GetCertsCmd == <<"ioslib.certs.getCerts">>
GetProfilesCmd == <<"ioslib.provisioning.getProvisioningProfiles">>
ValidCertTypes == {"developer", "distribution"}
ValidProfileTypes == {"adhoc", "development", "distribution"}
TypeArgs == {"developer", "distribution", "adhoc", "development", "enterprise", Undefined}
ErrCertType(type) == <<"Argument", type, "is not a valid type of certificate">>
ErrProfileType(type) == <<"Argument", type, "is not a valid type of provisioning profile">>
ErrNoCert(search) == <<"No certificate found with a name including">> \o search
ErrNoProfile(search) == <<"No provisioning profile found with a name matching">> \o search
ErrIoslib(cmd) == <<"ioslib failure">> \o cmd

ItemNames == {<<"iPhone Developer: ", "Alice">>, <<"Alice">>, <<"Bob">>}
SearchArgs == {<<"Alice">>, <<"Bob">>, <<"Carol">>}
Items == [name : ItemNames]
ItemLists == SeqsUpTo(Items, MaxCerts)
\* what ioslib returns: an object keyed by type
IoslibOutputs(types) ==
    {[ok |-> FALSE, byType |-> <<>>]}
    \cup {[ok |-> TRUE, byType |-> [t \in types |-> IF t = "distribution" THEN l2 ELSE l1]] :
          l1 \in ItemLists, l2 \in {<<>>, <<[name |-> <<"Bob">>]>>}}

\* forEach with assignment: index of the last item that satisfies the test, or 0
RECURSIVE LastCert(_, _, _, _)
LastCert(subCerts, search, i, found) ==
    IF i > Len(subCerts) THEN found
    ELSE LastCert(subCerts, search, i + 1,
                  IF Includes(subCerts[i].name, search) THEN i ELSE found)

RECURSIVE LastProfile(_, _, _, _)
LastProfile(subProfiles, search, i, found) ==
    IF i > Len(subProfiles) THEN found
    ELSE LastProfile(subProfiles, search, i + 1,
                     IF subProfiles[i].name = search THEN i ELSE found)

\* getCert from the point where ioslib.certs.getCerts() has answered
CertAfterQuery(type, search, out) ==
    IF ~out.ok THEN Throw(ErrIoslib(GetCertsCmd))
    ELSE IF type \notin ValidCertTypes THEN Throw(ErrCertType(type))
    ELSE LET subCerts == out.byType[type]
             i == LastCert(subCerts, search, 1, 0)
         IN IF i = 0 THEN Throw(ErrNoCert(search)) ELSE Ok(subCerts[i])

\* getProfile from the point where getProvisioningProfiles() has answered
ProfileAfterQuery(type, search, out) ==
    IF ~out.ok THEN Throw(ErrIoslib(GetProfilesCmd))
    ELSE IF type \notin ValidProfileTypes THEN Throw(ErrProfileType(type))
    ELSE LET subProfiles == out.byType[type]
             i == LastProfile(subProfiles, search, 1, 0)
         IN IF i = 0 THEN Throw(ErrNoProfile(search)) ELSE Ok(subProfiles[i])

\* ------------------------------------------------------------- isShutdown
MaxAttempts == 20

\* variant: the bound is tested with > instead of >=
TickOutcome_offByOne(state, count) ==
    IF state = "Shutdown" THEN "resolved"
    ELSE IF count > MaxAttempts THEN "rejected"
    ELSE "polling"

\* variant: the bound is tested before the state
TickOutcome_boundFirst(state, count) ==
    IF count >= MaxAttempts THEN "rejected"
    ELSE IF state = "Shutdown" THEN "resolved"
    ELSE "polling"

\* what one interval callback decides once getState returned `state` and
\* count has been incremented
TickOutcome(state, count) ==
    IF state = "Shutdown" THEN "resolved"
    ELSE IF count >= MaxAttempts THEN "rejected"
    ELSE "polling"

\* delay between the end of the initial wait and the first interval callback
FirstTickDelay(intervalWait) == intervalWait

\* ------------------------------------------- screenshot files (webdriver.js)
\* a path is its directory, the chunks of its base name and its extension
RefFiles == {[dir |-> <<"proj", "Screen_Shots">>, name |-> <<"home">>, ext |-> ".png"],
             [dir |-> <<"refs">>, name |-> <<"home">>, ext |-> ".png"]}
\* path.join(screenshotDir, path.basename(file)) renamed to `${elem.name}_Test`
CandidatePath(file, modRoot) ==
    [dir |-> modRoot \o <<"Screen_Shots">>, name |-> file.name \o <<"_Test">>, ext |-> file.ext]

\* variant: the overwrite flag is not honoured
WritePath_alwaysCandidate(file, modRoot, overwrite) == CandidatePath(file, modRoot)

\* variant: the screenshot always goes to the reference path
WritePath_alwaysReference(file, modRoot, overwrite) == file

\* the path processImg writes the screenshot to
WritePath(file, modRoot, overwrite) ==
    IF overwrite THEN file ELSE CandidatePath(file, modRoot)

AllPaths == RefFiles \cup {CandidatePath(f, <<"proj">>) : f \in RefFiles}

\* the dimensions argument: a crop region, or undefined
NoRegion == [given |-> FALSE, height |-> 0, width |-> 0, top |-> 0]
Region(h, w, t) == [given |-> TRUE, height |-> h, width |-> w, top |-> t]
\* a file: the screenshot it holds and the region it was cropped to
Absent == [exists |-> FALSE, shot |-> "", crop |-> NoRegion]
Image(shot, crop) == [exists |-> TRUE, shot |-> shot, crop |-> crop]

\* thresholds and mismatch percentages in hundredths of a percent
CompImgDefault == 10
ScreenshotDefault == 20
\* the options a test passes; thresh is given or left out
ImgOpts ==
    {[thresh |-> [given |-> g, val |-> v], overwrite |-> o] :
        g \in BOOLEAN, v \in {0, 20, 30}, o \in BOOLEAN} \
    {[thresh |-> [given |-> FALSE, val |-> v], overwrite |-> o] : v \in {20, 30}, o \in BOOLEAN}

\* the destructuring default `thresh = 0.20` of screenshotTest/fullScreenshotTest
DefaultedThresh(thresh) ==
    IF thresh.given THEN thresh ELSE [given |-> TRUE, val |-> ScreenshotDefault]

\* compImg: `let threshold = 0.10; if (thresh) { threshold = thresh; }`
EffectiveThreshold(thresh) ==
    IF thresh.given /\ thresh.val # 0 THEN thresh.val ELSE CompImgDefault

\* variant: equality fails the comparison
Passes_strict(mismatch, threshold) == mismatch < threshold

\* compImg: `difference.misMatchPercentage <= threshold`
Passes(mismatch, threshold) == mismatch <= threshold

ErrIo(step) == <<"I/O failure", step>>
ErrThreshold(threshold, mismatch) ==
    <<"Images didn't meet required threshold, wanted below:", ToString(threshold),
      "got:", ToString(mismatch)>>

\* bounds reported by the driver, in the platform's units
DriverBounds ==
    [win : {[height |-> 10, width |-> 5], [height |-> 8, width |-> 4]},
     status : {[height |-> 2]},
     decor : {[found |-> FALSE, height |-> 0, width |-> 0, y |-> 0],
              [found |-> TRUE, height |-> 10, width |-> 5, y |-> 3]}]
SessionPlatforms == {"iOS", "Android", "Windows"}

\* variant: the iOS bounds are taken as they are
ScreenshotDimensions_asReported(platformName, winVal, statusVal, decor) ==
    IF platformName = "iOS"
    THEN Region(winVal.height, winVal.width, statusVal.height)
    ELSE IF platformName = "Android" /\ decor.found
    THEN Region(decor.height, decor.width, decor.y)
    ELSE NoRegion

\* the crop region screenshotTest builds
ScreenshotDimensions(platformName, winVal, statusVal, decor) ==
    IF platformName = "iOS"
    THEN Region(winVal.height * 2, winVal.width * 2, statusVal.height * 2)
    ELSE IF platformName = "Android" /\ decor.found
    THEN Region(decor.height, decor.width, decor.y)
    ELSE NoRegion

\* the driver commands screenshotTest sends before it calls processImg
ScreenshotCommands(platformName, decor) ==
    <<"sleep", "getPlatform">> \o
    (IF platformName = "iOS"
     THEN <<"elementByClassName XCUIElementTypeApplication", "getBounds",
            "elementByClassName XCUIElementTypeStatusBar", "getBounds", "takeScreenshot">>
     ELSE IF platformName = "Android"
     THEN <<"elementsById decor_content_parent">> \o
          (IF decor.found THEN <<"elementById decor_content_parent", "getBounds">> ELSE <<>>) \o
          <<"takeScreenshot">>
     ELSE <<>>)

NoImg == [pc |-> "idle", op |-> "none", sent |-> <<>>, events |-> <<>>,
          threshold |-> -1, mismatch |-> -1, result |-> NoResult]

\* ------------------------------------------------- Appium_Helper (appium.js)
DriverIds == 1 .. MaxDrivers
ServerIds == 1 .. MaxServers
\* no client in global.driver, no server or port in Appium_Helper
Unset == 0
\* capabilities a test passes: the platform, with or without automationName
CapsArgs ==
    {c \in [platformName : SessionPlatforms, automationName : {"", "Espresso"},
            deviceReadyTimeout : {0}, simulatorPasteboardAutomaticSync : {""},
            newCommandTimeout : {0}] :
        c.automationName = "" \/ c.platformName = "Android"}

\* the defaults startClient fills in before it opens the session
DefaultedCaps(capabilities) ==
    [platformName |-> capabilities.platformName,
     automationName |->
        IF capabilities.automationName # "" THEN capabilities.automationName
        ELSE IF capabilities.platformName = "iOS" THEN "XCUITest"
        ELSE IF capabilities.platformName = "Android" THEN "UiAutomator2"
        ELSE "Appium",
     deviceReadyTimeout |->
        IF capabilities.deviceReadyTimeout = 0 /\ capabilities.platformName = "Android"
        THEN 60 ELSE capabilities.deviceReadyTimeout,
     simulatorPasteboardAutomaticSync |->
        IF capabilities.simulatorPasteboardAutomaticSync = "" /\ capabilities.platformName = "iOS"
        THEN "on" ELSE capabilities.simulatorPasteboardAutomaticSync,
     newCommandTimeout |->
        IF capabilities.newCommandTimeout = 0 THEN 60 * 10 ELSE capabilities.newCommandTimeout]

\* what driver.sessionCapabilities() answers for a session opened with caps
SessionCapabilities(caps) ==
    [platformName |-> caps.platformName,
     CFBundleIdentifier |-> "com.example.ios",
     desired |-> [appPackage |-> "com.example.android"]]

\* variant: the app is removed on every platform
ShouldRemoveApp_anyPlatform(softStop, platformName) == ~softStop

\* stopClient: `if (!softStop) { if (platform === 'Android' || platform === 'iOS')`
ShouldRemoveApp(softStop, platformName) ==
    ~softStop /\ (platformName = "Android" \/ platformName = "iOS")

\* the driver calls of a stopClient that runs to its end
StopSteps(softStop, capabilities) ==
    <<<<"sessionCapabilities">>, <<"closeApp">>>> \o
    (IF ShouldRemoveApp(softStop, capabilities.platformName)
     THEN <<<<"removeApp", IF capabilities.platformName = "iOS"
                           THEN capabilities.CFBundleIdentifier
                           ELSE capabilities.desired.appPackage>>>>
     ELSE <<>>) \o
    <<<<"quit">>>>

ErrExternalServer == <<"Connecting to an External Appium Server is Not Currently Supported">>
ErrNoServer == <<"Appium server not found!">>

ValidAddresses == {"localhost", "0.0.0.0", "127.0.0.1"}
DefaultPort == 4723
NoGlobals == [driver |-> Unset, webdriver |-> FALSE]
NoHelper == [server |-> Unset, host |-> Undefined, port |-> Unset]
NoAppCall == [op |-> "none", driver |-> Unset, softStop |-> FALSE, hostname |-> Undefined,
              port |-> Unset, log |-> <<>>, before |-> NoGlobals, result |-> NoResult]
NoCmd == [op |-> "none"]

\* ------------------------------------------------------------------ state
VARIABLES
    platform,   \* process.platform
    pc,         \* "idle", or the position of the running killSim call
    op,         \* the operation called last
    args,       \* its arguments
    env,        \* the external output its id resolution read
    result,     \* its result: NoResult, Pending, Ok(v) or Throw(e)
    log,        \* the external commands issued since it was called
    poll,       \* the state of isShutdown's closure and timers
    uncaught,   \* the last error that escaped a timer callback, or <<>>
    files,      \* the screenshot files on disk: path -> content
    img,        \* the running screenshotTest/fullScreenshotTest call
    stray,      \* a pngcrop.crop call whose promise was resolved before it ran
    sessions,   \* the WebDriver clients created so far and their sessions
    globals,    \* global.driver and global.webdriver
    servers,    \* the Appium servers started so far
    helper,     \* Appium_Helper.server, .host and .port
    appCall,    \* the last Appium_Helper call: driver calls issued, outcome
    cmdCall     \* the last text or log command: inputs and outcome

deviceVars == <<platform, pc, op, args, env, result, log, poll, uncaught>>
imgVars == <<files, img, stray>>
appVars == <<sessions, globals, servers, helper, appCall>>
vars == <<platform, pc, op, args, env, result, log, poll, uncaught, files, img, stray,
          sessions, globals, servers, helper, appCall, cmdCall>>

Platforms == {"darwin", "win32", "linux"}

\* timeout, interval: the timer is armed; count: the closure's counter;
\* checks: getState calls made; tiInfoRuns, xcrunListRuns: commands those
\* calls ran; elapsed: sum of the delays of the timers fired so far.
NoPoll == [timeout |-> FALSE, interval |-> FALSE, count |-> 0, checks |-> 0,
           outcome |-> "none", lastState |-> NoValue, elapsed |-> 0,
           firstCheckAt |-> -1, seenShutdown |-> 0, tickErrors |-> 0,
           tiInfoRuns |-> 0, xcrunListRuns |-> 0]

Init ==
    /\ platform \in Platforms
    /\ pc = "idle"
    /\ op = "none"
    /\ args = <<>>
    /\ env = <<>>
    /\ result = NoResult
    /\ log = <<>>
    /\ poll = NoPoll
    /\ uncaught = <<>>
    /\ files = [p \in AllPaths |-> IF p \in RefFiles THEN Image("shot0", NoRegion) ELSE Absent]
    /\ img = NoImg
    /\ stray = FALSE
    /\ sessions = [d \in DriverIds |-> [state |-> "unused", caps |-> <<>>]]
    /\ globals = NoGlobals
    /\ servers = [s \in ServerIds |-> [state |-> "unused", port |-> Unset]]
    /\ helper = NoHelper
    /\ appCall = NoAppCall
    /\ cmdCall = NoCmd

\* ---------------------------------------------------------------- killSim
\* the synchronous part of killSim, up to the await of isShutdown
KillSim(simName, simVersion, initialWait, intervalWait, tiOut, shutdownOk) ==
    /\ pc = "idle"
    /\ op' = "killSim"
    /\ args' = [simName |-> simName, simVersion |-> simVersion,
                initialWait |-> initialWait, intervalWait |-> intervalWait]
    /\ uncaught' = <<>>
    /\ UNCHANGED platform
    /\ IF Falsy(simName)
       THEN /\ result' = Throw(ErrEmptyName)
            /\ log' = <<>> /\ env' = <<>> /\ poll' = NoPoll /\ pc' = "done"
       ELSE IF Falsy(simVersion)
       THEN /\ result' = Throw(ErrEmptyVersion)
            /\ log' = <<>> /\ env' = <<>> /\ poll' = NoPoll /\ pc' = "done"
       ELSE LET udid == GetUdid(simName, simVersion, tiOut)
            IN /\ env' = [tiOut |-> tiOut, udid |-> udid]
               /\ IF udid.status = "error"
                  THEN /\ result' = udid
                       /\ log' = <<TiInfoCmd>>
                       /\ poll' = NoPoll /\ pc' = "done"
                  ELSE IF ~shutdownOk
                  THEN /\ result' = Throw(ErrExec(ShutdownCmd(udid.val)))
                       /\ log' = <<TiInfoCmd, ShutdownCmd(udid.val)>>
                       /\ poll' = NoPoll /\ pc' = "done"
                  ELSE /\ result' = Pending
                       /\ log' = <<TiInfoCmd, ShutdownCmd(udid.val)>>
                       /\ poll' = [NoPoll EXCEPT !.timeout = TRUE, !.outcome = "pending"]
                       /\ pc' = "initialWait"

\* the setTimeout callback of isShutdown: starts the interval
InitialWaitFires ==
    /\ pc = "initialWait"
    /\ poll.timeout
    /\ poll' = [poll EXCEPT !.timeout = FALSE, !.interval = TRUE, !.count = 0,
                            !.elapsed = @ + args.initialWait]
    /\ pc' = "polling"
    /\ UNCHANGED <<platform, op, args, env, result, log, uncaught>>

\* variant: the interval is started at once, without the setTimeout
TickTime_noInitialWait(n) ==
    FirstTickDelay(args.intervalWait) + (n - 1) * args.intervalWait

\* elapsed time at which the interval callback number n (from 1) runs
TickTime(n) ==
    args.initialWait + FirstTickDelay(args.intervalWait) + (n - 1) * args.intervalWait

\* one setInterval callback in which getState returns a state
TickReturns(tiOut, xcrunOut) ==
    /\ pc = "polling"
    /\ poll.interval
    /\ LET st == GetState(args.simName, args.simVersion, tiOut, xcrunOut)
           count == poll.count + 1
           now == TickTime(poll.checks + 1)
       IN /\ st.res.status = "ok"
          /\ LET outcome == TickOutcome(st.res.val, count)
             IN /\ poll' = [poll EXCEPT
                              !.count = count,
                              !.checks = @ + 1,
                              !.lastState = st.res.val,
                              !.elapsed = now,
                              !.firstCheckAt = IF @ < 0 THEN now ELSE @,
                              !.seenShutdown = IF st.res.val = "Shutdown" THEN @ + 1 ELSE @,
                              !.interval = (outcome = "polling"),
                              !.outcome = IF outcome = "polling" THEN "pending" ELSE outcome,
                              !.tiInfoRuns = @ + 1,
                              !.xcrunListRuns = @ + 1]
                /\ pc' = IF outcome = "polling" THEN "polling" ELSE "settled"
    /\ UNCHANGED <<platform, op, args, env, result, log, uncaught>>

\* one setInterval callback in which getState throws: the error leaves the
\* callback before count++, the promise is not settled and the interval is
\* not cleared.  The process either dies of the uncaught exception or, when
\* an 'uncaughtException' handler is installed, goes on.
TickThrows(tiOut, xcrunOut, handled) ==
    /\ pc = "polling"
    /\ poll.interval
    /\ poll.tickErrors < MaxTickErrors
    /\ LET st == GetState(args.simName, args.simVersion, tiOut, xcrunOut)
           now == TickTime(poll.checks + 1)
       IN /\ st.res.status = "error"
          /\ poll' = [poll EXCEPT !.checks = @ + 1, !.elapsed = now,
                                  !.firstCheckAt = IF @ < 0 THEN now ELSE @,
                                  !.tickErrors = @ + 1,
                                  !.tiInfoRuns = @ + 1,
                                  !.xcrunListRuns = @ + Len(st.cmds) - 1]
          /\ uncaught' = st.res.err
    /\ pc' = IF handled THEN "polling" ELSE "crashed"
    /\ UNCHANGED <<platform, op, args, env, result, log>>

\* variant: the cleanup runs in a finally block
KillSimResumes_alwaysCleanup ==
    /\ pc = "settled"
    /\ log' = Append(log, KillallCmd)
    /\ result' = IF poll.outcome = "resolved" THEN Ok(Undefined) ELSE Throw(ErrTimeout)
    /\ pc' = "done"
    /\ UNCHANGED <<platform, op, args, env, poll, uncaught>>

\* killSim resumes after `await isShutdown(...)`
KillSimResumes ==
    /\ pc = "settled"
    /\ IF poll.outcome = "resolved"
       THEN /\ log' = Append(log, KillallCmd)
            /\ result' = Ok(Undefined)
       ELSE /\ log' = log
            /\ result' = Throw(ErrTimeout)
    /\ pc' = "done"
    /\ UNCHANGED <<platform, op, args, env, poll, uncaught>>

\* ------------------------------------------------------------ getSimState
GetSimState(simName, simVersion, tiOut, xcrunOut) ==
    /\ pc = "idle"
    /\ op' = "getSimState"
    /\ args' = [simName |-> simName, simVersion |-> simVersion]
    /\ poll' = NoPoll
    /\ uncaught' = <<>>
    /\ pc' = "done"
    /\ UNCHANGED platform
    /\ IF Falsy(simName)
       THEN /\ result' = Throw(ErrEmptyName) /\ log' = <<>> /\ env' = <<>>
       ELSE IF Falsy(simVersion)
       THEN /\ result' = Throw(ErrEmptyVersion) /\ log' = <<>> /\ env' = <<>>
       ELSE LET st == GetState(simName, simVersion, tiOut, xcrunOut)
            IN /\ result' = st.res
               /\ log' = st.cmds
               /\ env' = [tiOut |-> tiOut, xcrunOut |-> xcrunOut,
                          udid |-> GetUdid(simName, simVersion, tiOut)]

\* ---------------------------------------------------------------- killEmu
\* killEmu up to the await of ps() inside getAndroidPID
KillEmu(deviceName) ==
    /\ pc = "idle"
    /\ op' = "killEmu"
    /\ args' = [deviceName |-> deviceName]
    /\ env' = <<>>
    /\ result' = Pending
    /\ log' = <<PsListCmd>>
    /\ pc' = "psPending"
    /\ UNCHANGED <<platform, poll, uncaught>>

\* variant: the error of getAndroidPID is swallowed and the kill still issued
PsReturns_killAnyway(psOut, killOk) ==
    /\ pc = "psPending"
    /\ LET devicePID == GetAndroidPID(args.deviceName, psOut, platform)
           cmd == IF platform = "win32" THEN TaskkillCmd(devicePID.val)
                  ELSE KillCmd(devicePID.val)
       IN /\ env' = [psOut |-> psOut, pid |-> devicePID]
          /\ log' = Append(log, cmd)
          /\ result' = IF killOk THEN Ok(Undefined) ELSE Throw(ErrExec(cmd))
    /\ pc' = "done"
    /\ UNCHANGED <<platform, op, args, poll, uncaught>>

\* ps() settles: the rest of getAndroidPID and of killEmu
PsReturns(psOut, killOk) ==
    /\ pc = "psPending"
    /\ LET devicePID == GetAndroidPID(args.deviceName, psOut, platform)
           cmd == IF platform = "win32" THEN TaskkillCmd(devicePID.val)
                  ELSE KillCmd(devicePID.val)
       IN /\ env' = [psOut |-> psOut, pid |-> devicePID]
          /\ IF devicePID.status = "error"
             THEN /\ result' = devicePID
                  /\ log' = log
             ELSE /\ log' = Append(log, cmd)
                  /\ result' = IF killOk THEN Ok(Undefined) ELSE Throw(ErrExec(cmd))
    /\ pc' = "done"
    /\ UNCHANGED <<platform, op, args, poll, uncaught>>

\* ---------------------------------------------------------------- getCert
GetCert(type, search) ==
    /\ pc = "idle"
    /\ op' = "getCert"
    /\ args' = [type |-> type, search |-> search]
    /\ env' = <<>>
    /\ IF platform # "darwin"
       THEN /\ result' = Ok(Undefined) /\ log' = <<>> /\ pc' = "done"
       ELSE /\ result' = Pending /\ log' = <<GetCertsCmd>> /\ pc' = "certsPending"
    /\ UNCHANGED <<platform, poll, uncaught>>

CertsReturn(out) ==
    /\ pc = "certsPending"
    /\ env' = [out |-> out]
    /\ result' = CertAfterQuery(args.type, args.search, out)
    /\ pc' = "done"
    /\ UNCHANGED <<platform, op, args, log, poll, uncaught>>

\* ------------------------------------------------------------- getProfile
GetProfile(type, search) ==
    /\ pc = "idle"
    /\ op' = "getProfile"
    /\ args' = [type |-> type, search |-> search]
    /\ env' = <<>>
    /\ IF platform # "darwin"
       THEN /\ result' = Ok(Undefined) /\ log' = <<>> /\ pc' = "done"
       ELSE /\ result' = Pending /\ log' = <<GetProfilesCmd>> /\ pc' = "profilesPending"
    /\ UNCHANGED <<platform, poll, uncaught>>

ProfilesReturn(out) ==
    /\ pc = "profilesPending"
    /\ env' = [out |-> out]
    /\ result' = ProfileAfterQuery(args.type, args.search, out)
    /\ pc' = "done"
    /\ UNCHANGED <<platform, op, args, log, poll, uncaught>>

\* the registry a state check of the poll may read: the one killSim read,
\* one from which the simulators are gone, or a failed `ti info`
TickTiOutputs ==
    {env.tiOut, [ok |-> TRUE, sims |-> <<>>], [ok |-> FALSE, sims |-> <<>>]}

\* the caller takes the result; the helper keeps no state between calls
Return ==
    /\ pc = "done"
    /\ pc' = "idle"
    /\ op' = "none"
    /\ args' = <<>>
    /\ env' = <<>>
    /\ result' = NoResult
    /\ log' = <<>>
    /\ poll' = NoPoll
    /\ uncaught' = <<>>
    /\ UNCHANGED platform

\* Device_Helper touches nothing outside its own call
Next ==
    \/ /\ pc = "idle" /\ \E n \in NameArgs, v \in VersionArgs, w \in WaitOpts,
             t \in TiOutputsOn(platform), s \in BOOLEAN :
             KillSim(n, v, w.initialWait, w.intervalWait, t, s)
       /\ UNCHANGED <<imgVars, appVars, cmdCall>>
    \/ InitialWaitFires /\ UNCHANGED <<imgVars, appVars, cmdCall>>
    \/ /\ pc = "polling" /\ \E t \in TickTiOutputs, x \in XcrunOutputs : TickReturns(t, x)
       /\ UNCHANGED <<imgVars, appVars, cmdCall>>
    \/ /\ pc = "polling" /\ \E t \in TickTiOutputs, x \in XcrunOutputs, h \in BOOLEAN : TickThrows(t, x, h)
       /\ UNCHANGED <<imgVars, appVars, cmdCall>>
    \/ KillSimResumes /\ UNCHANGED <<imgVars, appVars, cmdCall>>
    \/ /\ pc = "idle" /\ \E d \in DeviceNames : KillEmu(d)
       /\ UNCHANGED <<imgVars, appVars, cmdCall>>
    \/ /\ pc = "psPending" /\ \E p \in PsOutputs, k \in BOOLEAN : PsReturns(p, k)
       /\ UNCHANGED <<imgVars, appVars, cmdCall>>
    \/ /\ pc = "idle" /\ \E t \in TypeArgs, q \in SearchArgs : GetCert(t, q)
       /\ UNCHANGED <<imgVars, appVars, cmdCall>>
    \/ /\ pc = "certsPending" /\ \E o \in IoslibOutputs(ValidCertTypes) : CertsReturn(o)
       /\ UNCHANGED <<imgVars, appVars, cmdCall>>
    \/ /\ pc = "idle" /\ \E t \in TypeArgs, q \in SearchArgs : GetProfile(t, q)
       /\ UNCHANGED <<imgVars, appVars, cmdCall>>
    \/ /\ pc = "profilesPending" /\ \E o \in IoslibOutputs(ValidProfileTypes) : ProfilesReturn(o)
       /\ UNCHANGED <<imgVars, appVars, cmdCall>>
    \/ Return /\ UNCHANGED <<imgVars, appVars, cmdCall>>
    \/ /\ pc = "idle" /\ \E n \in NameArgs, v \in VersionArgs, t \in TiOutputsOn(platform), x \in XcrunOutputs :
             GetSimState(n, v, t, x)
       /\ UNCHANGED <<imgVars, appVars, cmdCall>>

Spec == Init /\ [][Next]_vars

\* ---------------------------------------------- processImg, cropImg, compImg
\* the call as processImg receives it; opts is what the test passed, session
\* the platform and the bounds the driver reported
ImgCall(opName, file, modRoot, screenshot, opts, dimensions, commands, session) ==
    [pc |-> "entered", op |-> opName, sent |-> commands, events |-> <<>>,
     session |-> session,
     threshold |-> -1, mismatch |-> -1, result |-> NoResult,
     file |-> file, modRoot |-> modRoot, screenshot |-> screenshot, opts |-> opts,
     thresh |-> DefaultedThresh(opts.thresh), overwrite |-> opts.overwrite,
     dimensions |-> dimensions,
     target |-> WritePath(file, modRoot, opts.overwrite), before |-> files]

\* what follows `await cropImg(...)` once the promise has resolved: the
\* return of the overwrite branch, or compImg up to the call of resemble
AfterCrop(call) ==
    IF call.overwrite
    THEN [call EXCEPT !.pc = "done", !.result = Ok(Undefined)]
    ELSE [call EXCEPT !.pc = "comparing",
                      !.events = @ \o <<"compareCall">>,
                      !.threshold = EffectiveThreshold(call.thresh)]

\* processImg up to its first suspension; io is the first step that fails: a
\* driver command, fs.ensureDirSync, fs.writeFileSync, or none. cropImg resolves at once when no
\* region is passed and calls pngcrop.crop all the same; inFlight tells
\* whether that call is still running when the executor returns.
ProcessImg(call, io, inFlight) ==
    IF io = "ensureDir"
    THEN /\ img' = [call EXCEPT !.pc = "done", !.events = <<"ensureDir">>,
                                !.result = Throw(ErrIo("ensureDirSync"))]
         /\ UNCHANGED <<files, stray>>
    ELSE IF io = "write"
    THEN /\ img' = [call EXCEPT !.pc = "done", !.events = <<"ensureDir", "write">>,
                                !.result = Throw(ErrIo("writeFileSync"))]
         /\ UNCHANGED <<files, stray>>
    ELSE /\ files' = [files EXCEPT ![call.target] = Image(call.screenshot, NoRegion)]
         /\ IF ~call.dimensions.given
            THEN /\ img' = AfterCrop([call EXCEPT !.events = <<"ensureDir", "write", "cropCall">>])
                 /\ stray' = (stray \/ inFlight)
            ELSE /\ img' = [call EXCEPT !.pc = "cropping",
                                        !.events = <<"ensureDir", "write", "cropCall">>]
                 /\ UNCHANGED stray

ScreenshotTest(file, modRoot, opts, platformName, winVal, statusVal, decor, screenshot, io, inFlight) ==
    /\ img.pc = "idle"
    /\ LET commands == ScreenshotCommands(platformName, decor)
           call == ImgCall("screenshotTest", file, modRoot, screenshot, opts,
                           ScreenshotDimensions(platformName, winVal, statusVal, decor),
                           commands,
                           \* only the bounds the branch asked the driver for
                           [platformName |-> platformName,
                            win |-> IF platformName = "iOS" THEN winVal ELSE <<>>,
                            status |-> IF platformName = "iOS" THEN statusVal ELSE <<>>,
                            decor |-> IF platformName = "Android" THEN decor ELSE <<>>])
       IN  IF io = "driver"
           THEN /\ img' = [call EXCEPT !.pc = "done", !.sent = <<"sleep", "getPlatform">>,
                                       !.result = Throw(ErrIo("driver"))]
                /\ UNCHANGED <<files, stray>>
           ELSE IF platformName \notin {"iOS", "Android"}
           THEN /\ img' = [call EXCEPT !.pc = "done", !.result = Ok(Undefined)]
                /\ UNCHANGED <<files, stray>>
           ELSE ProcessImg(call, io, inFlight)

FullScreenshotTest(file, modRoot, opts, screenshot, io, inFlight) ==
    /\ img.pc = "idle"
    /\ LET call == ImgCall("fullScreenshotTest", file, modRoot, screenshot, opts, NoRegion,
                           <<"sleep", "takeScreenshot">>, <<>>)
       IN  IF io = "driver"
           THEN /\ img' = [call EXCEPT !.pc = "done", !.sent = <<"sleep">>,
                                       !.result = Throw(ErrIo("driver"))]
                /\ UNCHANGED <<files, stray>>
           ELSE ProcessImg(call, io, inFlight)

\* the callback of pngcrop.crop for a call with a region
CropCompletes(ok) ==
    /\ img.pc = "cropping"
    /\ IF ok
       THEN /\ files' = [files EXCEPT ![img.target] = Image(files[img.target].shot, img.dimensions)]
            /\ img' = AfterCrop([img EXCEPT !.events = @ \o <<"cropDone">>])
       ELSE /\ img' = [img EXCEPT !.pc = "done", !.events = @ \o <<"cropDone">>,
                                  !.result = Throw(ErrIo("pngcrop.crop"))]
            /\ UNCHANGED files
    /\ UNCHANGED stray

\* the callback of a pngcrop.crop call made without a region: the promise is
\* settled already, the utility leaves the file as it is
StrayCropCompletes ==
    /\ stray
    /\ stray' = FALSE
    /\ UNCHANGED <<files, img>>

\* the onComplete callback of resemble
CompareCompletes(mismatch) ==
    /\ img.pc = "comparing"
    /\ IF Passes(mismatch, img.threshold)
       THEN /\ files' = [files EXCEPT ![img.target] = Absent]
            /\ img' = [img EXCEPT !.pc = "done", !.mismatch = mismatch,
                                  !.events = @ \o <<"compareDone", "unlink">>,
                                  !.result = Ok(Undefined)]
       ELSE /\ img' = [img EXCEPT !.pc = "done", !.mismatch = mismatch,
                                  !.events = @ \o <<"compareDone">>,
                                  !.result = Throw(ErrThreshold(img.threshold, mismatch))]
            /\ UNCHANGED files
    /\ UNCHANGED stray

\* the caller takes the outcome; the files stay as the call left them
ImgReturn ==
    /\ img.pc = "done"
    /\ img' = NoImg
    /\ UNCHANGED <<files, stray>>


\* ================================================================ claims
KillSimCalled == op = "killSim"
\* killSim or getSimState got past its argument checks and resolved the id
SimResolved ==
    /\ op \in {"killSim", "getSimState"}
    /\ ~Falsy(args.simName)
    /\ ~Falsy(args.simVersion)
\* every state check of the poll so far returned a state other than 'Shutdown'
NeverShutdown == poll.tickErrors = 0 /\ poll.seenShutdown = 0
IsIn(cmd, l) == \E i \in DOMAIN l : l[i] = cmd

\* C1: a poll whose state checks all succeed and never report 'Shutdown'
\* makes exactly 20 checks, the first one no sooner than initialWait plus one
\* intervalWait after the start, then clears its interval and rejects with
\* the timeout message, which killSim passes to its caller.
C1_TimeoutAfterTwentyChecks ==
    (KillSimCalled /\ NeverShutdown) =>
        /\ poll.checks <= 20
        /\ poll.count = poll.checks
        /\ poll.checks >= 1 => poll.firstCheckAt >= args.initialWait + args.intervalWait
        /\ poll.checks < 20 => poll.outcome \in {"none", "pending"}
        /\ poll.checks = 20 =>
              /\ poll.outcome = "rejected"
              /\ ~poll.interval /\ ~poll.timeout
              /\ poll.elapsed = args.initialWait + 20 * args.intervalWait
              /\ pc \in {"settled", "done"}
              /\ pc = "done" => result = Throw(ErrTimeout)

C1_Witness ==
    /\ KillSimCalled /\ NeverShutdown
    /\ poll.checks = 20 /\ pc = "done" /\ result = Throw(ErrTimeout)

\* C2: the poll resolves at the first check that reports exactly 'Shutdown',
\* the 20th included, and never rejects on such a check; a poll that has
\* resolved did so on its last check, the only one that reported 'Shutdown'.
C2_ConfirmsAtFirstShutdown ==
    KillSimCalled =>
        /\ poll.lastState = "Shutdown" => poll.outcome = "resolved"
        /\ poll.seenShutdown > 0 => poll.outcome = "resolved"
        /\ poll.outcome = "resolved" =>
              /\ poll.lastState = "Shutdown"
              /\ poll.seenShutdown = 1
              /\ poll.count <= 20
              /\ ~poll.interval
              /\ pc = "done" => result = Ok(Undefined)
        /\ poll.outcome = "rejected" => poll.seenShutdown = 0

C2_Witness ==
    /\ KillSimCalled /\ poll.outcome = "resolved" /\ poll.count = 20
    /\ poll.tickErrors = 0 /\ pc = "done"

\* C3 (as claimed): once a state check of the poll has raised an error the
\* poll is settled as rejected and its interval timer is cleared.
C3_FailedCheckSettlesPoll ==
    (KillSimCalled /\ poll.tickErrors > 0) =>
        (poll.outcome = "rejected" /\ ~poll.interval)

\* C4 (as claimed): killSim issues 'killall Simulator' last, whether the poll
\* resolved or timed out.
C4_CleanupAfterEitherEnd ==
    (KillSimCalled /\ pc = "done" /\ poll.outcome \in {"resolved", "rejected"}) =>
        (Len(log) > 0 /\ log[Len(log)] = KillallCmd)

\* C4 (amended): 'killall Simulator' is issued, as the last command, exactly
\* when the poll resolved; after a timeout killSim rejects with the timeout
\* message and issues no cleanup.
C4_CleanupOnlyAfterConfirmation ==
    KillSimCalled =>
        /\ IsIn(KillallCmd, log) =>
              /\ poll.outcome = "resolved" /\ ~poll.interval /\ ~poll.timeout
              /\ log[Len(log)] = KillallCmd
              /\ pc = "done"
        /\ (pc = "done" /\ poll.outcome = "resolved") =>
              (IsIn(KillallCmd, log) /\ result = Ok(Undefined))
        /\ (pc = "done" /\ poll.outcome = "rejected") =>
              (~IsIn(KillallCmd, log) /\ result = Throw(ErrTimeout))

C4_Witness ==
    /\ KillSimCalled /\ pc = "done" /\ poll.outcome = "rejected"
    /\ result = Throw(ErrTimeout) /\ ~IsIn(KillallCmd, log)

\* C5: a shutdown command is issued only with the UDID getUdid returned, a
\* kill/taskkill only with the PID getAndroidPID returned; when resolution
\* fails the call fails with that error after the single resolution query,
\* with no shutdown/kill, no poll and no second query.
C5_NoKillBeforeResolution ==
    /\ \A i \in DOMAIN log :
          /\ log[i][1] = "xcrun simctl shutdown" =>
                /\ SimResolved /\ KillSimCalled
                /\ env.udid.status = "ok"
                /\ log[i] = ShutdownCmd(env.udid.val)
                /\ i = 2 /\ log[1] = TiInfoCmd
          /\ log[i][1] \in {"kill -9", "taskkill /F /PID"} =>
                /\ op = "killEmu" /\ pc = "done"
                /\ env.pid.status = "ok"
                /\ log[i][2] = env.pid.val
                /\ i = 2 /\ log[1] = PsListCmd
    /\ (KillSimCalled /\ SimResolved /\ env.udid.status = "error") =>
          /\ pc = "done" /\ result = env.udid
          /\ log = <<TiInfoCmd>> /\ poll = NoPoll
    /\ (op = "killEmu" /\ pc = "done" /\ env.pid.status = "error") =>
          /\ result = env.pid
          /\ log = <<PsListCmd>>
    /\ (poll.timeout \/ poll.interval \/ poll.checks > 0) =>
          (KillSimCalled /\ IsIn(ShutdownCmd(env.udid.val), log))

C5_Witness ==
    /\ op = "killEmu" /\ pc = "done"
    /\ env.pid.status = "error" /\ env.psOut.ok /\ Len(env.psOut.list) > 0
    /\ log = <<PsListCmd>>

\* the requested name/version pair is in the registry snapshot
PairPresent ==
    /\ env.tiOut.ok
    /\ args.simVersion \in DOMAIN env.tiOut.sims
    /\ \E i \in DOMAIN env.tiOut.sims[args.simVersion] :
          env.tiOut.sims[args.simVersion][i].name = args.simName

\* C6: for a pair present in the snapshot getUdid returns the udid of the
\* (first) entry of the version's bucket whose name equals the requested
\* name; for an absent pair it throws and returns no id.
C6_GetUdidResolves ==
    SimResolved =>
        /\ PairPresent =>
              /\ env.udid.status = "ok"
              /\ \E i \in DOMAIN env.tiOut.sims[args.simVersion] :
                    LET tiSims == env.tiOut.sims[args.simVersion]
                    IN /\ tiSims[i].name = args.simName
                       /\ tiSims[i].udid = env.udid.val
                       /\ \A j \in 1..(i - 1) : tiSims[j].name # args.simName
        /\ ~PairPresent =>
              /\ env.udid.status = "error"
              /\ env.udid.val = NoValue
              /\ env.udid.err # <<>>

C6_Witness ==
    /\ SimResolved /\ PairPresent
    /\ Len(env.tiOut.sims[args.simVersion]) = 2
    /\ env.tiOut.sims[args.simVersion][1].name # args.simName
    /\ env.udid.val = env.tiOut.sims[args.simVersion][2].udid
    /\ env.udid.val # env.tiOut.sims[args.simVersion][1].udid

BucketMissing == env.tiOut.ok /\ args.simVersion \notin DOMAIN env.tiOut.sims
NameMissing == env.tiOut.ok /\ args.simVersion \in DOMAIN env.tiOut.sims /\ ~PairPresent

RuleMatches(i) ==
    IF platform = "win32"
    THEN Includes(env.psOut.list[i].name, <<"qemu-system-x86_64">>)
    ELSE Includes(env.psOut.list[i].cmd, args.deviceName)

\* C8: getAndroidPID returns the pid of the first process that matches the
\* rule of the platform (image name on win32, device name in the command
\* line elsewhere); with no such process it throws the error naming the
\* device and returns no pid.
C8_GetAndroidPIDResolves ==
    (op = "killEmu" /\ pc = "done") =>
        LET list == env.psOut.list
        IN /\ \A i \in DOMAIN list :
                (RuleMatches(i) /\ \A j \in 1..(i - 1) : ~RuleMatches(j)) =>
                    (env.pid.status = "ok" /\ env.pid.val = list[i].pid)
           /\ (\A i \in DOMAIN list : ~RuleMatches(i)) =>
                /\ env.pid.status = "error"
                /\ env.pid.val = NoValue
                /\ env.pid.err = <<"Cannot find an Android PID for">> \o args.deviceName

\* on win32 the second process is chosen although only the first one's
\* command line holds the device name
C8_Witness ==
    /\ op = "killEmu" /\ pc = "done" /\ platform = "win32"
    /\ Len(env.psOut.list) = 2
    /\ Includes(env.psOut.list[1].cmd, args.deviceName) /\ args.deviceName # <<>>
    /\ env.pid.status = "ok" /\ env.pid.val = env.psOut.list[2].pid

EmptySimArgs ==
    /\ op \in {"killSim", "getSimState"}
    /\ \/ args.simName = "" \/ args.simName = Undefined
       \/ args.simVersion = "" \/ args.simVersion = Undefined

\* C9: killSim and getSimState with an empty or missing name or version
\* throw at once: no external command is run and no poll is started.
C9_EmptyArgsFailFirst ==
    EmptySimArgs =>
        /\ pc = "done"
        /\ result.status = "error"
        /\ result.err \in {ErrEmptyName, ErrEmptyVersion}
        /\ log = <<>>
        /\ poll = NoPoll

C9_Witness ==
    /\ op = "killSim" /\ args.simName = "iPhone 7" /\ args.simVersion = ""
    /\ result = Throw(ErrEmptyVersion) /\ log = <<>>

\* C10 (as claimed): on macOS getCert and getProfile with a type outside
\* their valid sets fail with the invalid-type error before any ioslib query.
C10_InvalidTypeFailsFirst ==
    /\ (op = "getCert" /\ platform = "darwin"
          /\ args.type \notin {"developer", "distribution"}) =>
          /\ log = <<>>
          /\ pc = "done" /\ result = Throw(ErrCertType(args.type))
    /\ (op = "getProfile" /\ platform = "darwin"
          /\ args.type \notin {"adhoc", "development", "distribution"}) =>
          /\ log = <<>>
          /\ pc = "done" /\ result = Throw(ErrProfileType(args.type))
\* ------------------------------------------------ startClient, stopClient
\* failAt: the awaited driver call that rejects, or "none"
StartClient(capabilities, failAt) ==
    /\ \E d \in DriverIds : sessions[d].state = "unused"
    /\ LET \* the client wd.promiseChainRemote creates: the first one not yet used
           d == CHOOSE x \in DriverIds :
                  sessions[x].state = "unused" /\ \A e \in 1 .. (x - 1) : sessions[e].state # "unused"
       IN  /\ globals' = [driver |-> d, webdriver |-> TRUE]
           /\ sessions' = [sessions EXCEPT ![d] =
                  [state |-> IF failAt = "init" THEN "created" ELSE "open",
                   caps |-> DefaultedCaps(capabilities)]]
           /\ appCall' = [NoAppCall EXCEPT
                  !.op = "startClient", !.driver = d, !.before = globals,
                  !.log = IF failAt = "init" THEN <<<<"init">>>>
                          ELSE <<<<"init">>, <<"resetApp">>>>,
                  !.result = IF failAt = "none" THEN Ok(Undefined)
                             ELSE Throw(ErrIo(failAt))]
    /\ UNCHANGED <<servers, helper>>

\* failAt: the position of the awaited driver call that rejects, or 0. A
\* client without an open session cannot answer sessionCapabilities.
StopClient(softStop, failAt) ==
    /\ LET d == globals.driver
       IN  IF d = Unset
           THEN /\ failAt = 0
                /\ appCall' = [NoAppCall EXCEPT !.op = "stopClient", !.softStop = softStop,
                                                !.before = globals, !.result = Ok(Undefined)]
                /\ UNCHANGED <<sessions, globals>>
           ELSE LET steps == StopSteps(softStop, SessionCapabilities(sessions[d].caps))
                IN  /\ failAt <= Len(steps)
                    /\ sessions[d].state # "open" => failAt = 1
                    /\ appCall' = [NoAppCall EXCEPT
                           !.op = "stopClient", !.driver = d, !.softStop = softStop,
                           !.before = globals,
                           !.log = IF failAt = 0 THEN steps ELSE SubSeq(steps, 1, failAt),
                           !.result = IF failAt = 0 THEN Ok(Undefined)
                                      ELSE Throw(ErrIo(steps[failAt][1]))]
                    /\ IF failAt = 0
                       THEN /\ sessions' = [sessions EXCEPT ![d].state = "quit"]
                            /\ globals' = NoGlobals
                       ELSE UNCHANGED <<sessions, globals>>
    /\ UNCHANGED <<servers, helper>>

\* ---------------------------------------------------- runAppium, quitServ
\* hostname and port are the options passed, "undefined" and Unset when left
\* out; started: whether appium.main brought the server up, which it cannot
\* on a port a running server holds
RunAppium(hostname, port, started) ==
    /\ \E x \in ServerIds : servers[x].state = "unused"
    /\ LET h == IF hostname = Undefined THEN "localhost" ELSE hostname
           p == IF port = Unset THEN DefaultPort ELSE port
           new == CHOOSE x \in ServerIds :
                    servers[x].state = "unused" /\ \A e \in 1 .. (x - 1) : servers[e].state # "unused"
           call == [NoAppCall EXCEPT !.op = "runAppium", !.hostname = hostname, !.port = port]
       IN  IF h \in ValidAddresses
           THEN /\ started => \A x \in ServerIds : servers[x].state = "running" => servers[x].port # p
                /\ IF started
                   THEN /\ servers' = [servers EXCEPT ![new] = [state |-> "running", port |-> p]]
                        /\ helper' = [server |-> new, host |-> h, port |-> p]
                        /\ appCall' = [call EXCEPT !.log = <<<<"appium.main">>>>,
                                                   !.result = Ok(Undefined)]
                   ELSE /\ appCall' = [call EXCEPT !.log = <<<<"appium.main">>>>,
                                                   !.result = Throw(ErrIo("main"))]
                        /\ UNCHANGED <<servers, helper>>
           ELSE /\ ~started
                /\ appCall' = [call EXCEPT !.result = Throw(ErrExternalServer)]
                /\ UNCHANGED <<servers, helper>>
    /\ UNCHANGED <<sessions, globals>>

\* closed: whether server.close() resolved
QuitServ(closed) ==
    /\ IF helper.server # Unset
       THEN IF closed
            THEN /\ servers' = [servers EXCEPT ![helper.server].state = "closed"]
                 /\ helper' = NoHelper
                 /\ appCall' = [NoAppCall EXCEPT !.op = "quitServ", !.log = <<<<"close">>>>,
                                                 !.result = Ok(Undefined)]
            ELSE /\ appCall' = [NoAppCall EXCEPT !.op = "quitServ", !.log = <<<<"close">>>>,
                                                 !.result = Throw(ErrIo("close"))]
                 /\ UNCHANGED <<servers, helper>>
       ELSE /\ ~closed
            /\ appCall' = [NoAppCall EXCEPT !.op = "quitServ", !.result = Throw(ErrNoServer)]
            /\ UNCHANGED <<servers, helper>>
    /\ UNCHANGED <<sessions, globals>>

NextClient ==
    \/ (\E c \in CapsArgs, f \in {"none", "init", "resetApp"} : StartClient(c, f))
       /\ UNCHANGED <<deviceVars, imgVars, cmdCall>>
    \/ (\E s \in BOOLEAN, f \in 0 .. 4 : StopClient(s, f))
       /\ UNCHANGED <<deviceVars, imgVars, cmdCall>>

SpecClient == Init /\ [][NextClient]_vars

NextServer ==
    \/ (\E h \in ValidAddresses \cup {Undefined, "appium.example.com"}, p \in {Unset, 4724},
            st \in BOOLEAN : RunAppium(h, p, st))
       /\ UNCHANGED <<deviceVars, imgVars, cmdCall>>
    \/ (\E c \in BOOLEAN : QuitServ(c))
       /\ UNCHANGED <<deviceVars, imgVars, cmdCall>>

SpecServer == Init /\ [][NextServer]_vars

\* -------------------------- elementText, elementsText, waitForElementText
\* a text is a sequence of characters: a lower-case letter, an upper-case
\* letter, a blank and a punctuation mark
Texts == UNION {[1 .. n -> {"a", "B", " ", "-"}] : n \in 0 .. MaxText}
\* \w of the characters that occur
IsWordChar(c) == c \in {"a", "A", "b", "B"}
ToUpperChar(c) == CASE c = "a" -> "A" [] c = "b" -> "B" [] OTHER -> c
ToLowerChar(c) == CASE c = "A" -> "a" [] c = "B" -> "b" [] OTHER -> c
ToUpperCase(str) == [i \in DOMAIN str |-> ToUpperChar(str[i])]

\* str.replace(/\w\S*/g, txt => txt.charAt(0).toUpperCase() +
\* txt.substr(1).toLowerCase()), scanned from position i (1 for the whole
\* text); inMatch: the character before belongs to a match that can go on
RECURSIVE TitleCase(_, _, _)
TitleCase(str, i, inMatch) ==
    IF i > Len(str) THEN <<>>
    ELSE IF inMatch /\ str[i] # " "
    THEN <<ToLowerChar(str[i])>> \o TitleCase(str, i + 1, TRUE)
    ELSE IF IsWordChar(str[i])
    THEN <<ToUpperChar(str[i])>> \o TitleCase(str, i + 1, TRUE)
    ELSE <<str[i]>> \o TitleCase(str, i + 1, FALSE)

\* capabilities.platformVersion as its dot-separated numbers, e.g. 6.0.1
AndroidVersions == {<<4, 4>>, <<6>>, <<6, 0, 1>>, <<7>>, <<7, 0>>, <<7, 1, 1>>, <<10>>}
\* parseFloat reads up to the second dot; the value in thousandths
ParseFloat(v) == v[1] * 1000 + (IF Len(v) >= 2 THEN v[2] * 100 ELSE 0)
\* toFixed(2): the value rounded to hundredths
ToFixed2(x) == (x + 5) \div 10

\* variant: 7.0 itself counts as an old version
AtLeastSeven_strict(hundredths) == hundredths > 700

\* `version >= 7.0`
AtLeastSeven(hundredths) == hundredths >= 700

\* the `{ preserve = false } = {}` argument
PreserveArgs == {[given |-> FALSE, val |-> FALSE], [given |-> TRUE, val |-> FALSE],
                 [given |-> TRUE, val |-> TRUE]}
PreserveOf(o) == IF o.given THEN o.val ELSE FALSE

Selector(text) == <<"new UiSelector().text(">> \o text \o <<")">>

\* the driver call a text command ends with; each command carries its own
\* copy of the switch
TextSend(opName, text, preserve, platformName, version) ==
    CASE opName = "elementText" ->
            IF platformName = "iOS" THEN [cmd |-> "elementById", arg |-> text]
            ELSE IF platformName = "Android"
            THEN [cmd |-> "elementByAndroidUIAutomator",
                  arg |-> Selector(IF AtLeastSeven(ToFixed2(ParseFloat(version)))
                                   THEN (IF ~preserve THEN ToUpperCase(text) ELSE text)
                                   ELSE IF ~preserve THEN TitleCase(text, 1, FALSE)
                                   ELSE text)]
            ELSE [cmd |-> "none", arg |-> <<>>]
      [] opName = "elementsText" ->
            IF platformName = "iOS" THEN [cmd |-> "elementsById", arg |-> text]
            ELSE IF platformName = "Android"
            THEN [cmd |-> "elementsByAndroidUIAutomator",
                  arg |-> Selector(IF AtLeastSeven(ToFixed2(ParseFloat(version)))
                                   THEN (IF ~preserve THEN ToUpperCase(text) ELSE text)
                                   ELSE IF ~preserve THEN TitleCase(text, 1, FALSE)
                                   ELSE text)]
            ELSE [cmd |-> "none", arg |-> <<>>]
      [] opName = "waitForElementText" ->
            IF platformName = "iOS" THEN [cmd |-> "waitForElementById", arg |-> text]
            ELSE IF platformName = "Android"
            THEN [cmd |-> "waitForElementByAndroidUIAutomator",
                  arg |-> Selector(IF AtLeastSeven(ToFixed2(ParseFloat(version)))
                                   THEN (IF ~preserve THEN ToUpperCase(text) ELSE text)
                                   ELSE IF ~preserve THEN TitleCase(text, 1, FALSE)
                                   ELSE text)]
            ELSE [cmd |-> "none", arg |-> <<>>]

ElementText(text, o, platformName, version) ==
    cmdCall' = [op |-> "elementText", text |-> text, preserve |-> o,
                platformName |-> platformName, version |-> version,
                sent |-> TextSend("elementText", text, PreserveOf(o), platformName, version)]

ElementsText(text, o, platformName, version) ==
    cmdCall' = [op |-> "elementsText", text |-> text, preserve |-> o,
                platformName |-> platformName, version |-> version,
                sent |-> TextSend("elementsText", text, PreserveOf(o), platformName, version)]

WaitForElementText(text, o, platformName, version) ==
    cmdCall' = [op |-> "waitForElementText", text |-> text, preserve |-> o,
                platformName |-> platformName, version |-> version,
                sent |-> TextSend("waitForElementText", text, PreserveOf(o), platformName, version)]

\* ------------------------------------------------------------- logCount
\* variant: the dot is left as it is
EscapedChars_noDot ==
    {"-", "[", "]", "{", "}", "(", ")", "*", "+", "?", ",", "\\", "/", "^", "$", "|", "#", " "}

\* the class /[-[\]{}()*+?.,\\/^$|#\s]/ ; the blank stands for \s
EscapedChars ==
    {"-", "[", "]", "{", "}", "(", ")", "*", "+", "?", ".", ",", "\\", "/", "^", "$", "|", "#", " "}

\* searchString.replace(/[...]/g, '\\$&')
RECURSIVE Escape(_)
Escape(term) ==
    IF term = <<>> THEN <<>>
    ELSE (IF Head(term) \in EscapedChars THEN <<"\\", Head(term)>> ELSE <<Head(term)>>)
         \o Escape(Tail(term))

\* new RegExp(pattern) for patterns of letters, '.', '*', '(' and '\':
\* the atoms of the pattern from position i on, or a syntax error
RECURSIVE Compile(_, _)
Compile(pattern, i) ==
    IF i > Len(pattern) THEN [ok |-> TRUE, atoms |-> <<>>]
    ELSE LET c == pattern[i]
             \* characters the atom takes, 0 for none
             width == IF c = "\\" THEN (IF i = Len(pattern) THEN 0 ELSE 2)
                      ELSE IF c \in {"*", "("} THEN 0
                      ELSE 1
             star == width > 0 /\ i + width <= Len(pattern) /\ pattern[i + width] = "*"
             rest == Compile(pattern, i + width + (IF star THEN 1 ELSE 0))
             atom == [kind |-> IF c = "." THEN "any" ELSE "lit",
                      ch |-> IF c = "\\" THEN pattern[i + 1] ELSE c,
                      star |-> star]
         IN  IF width = 0 \/ ~rest.ok THEN [ok |-> FALSE, atoms |-> <<>>]
             ELSE [ok |-> TRUE, atoms |-> <<atom>> \o rest.atoms]

AtomAccepts(atom, c) == atom.kind = "any" \/ atom.ch = c

\* the atoms from a on match str from position k on
RECURSIVE MatchAt(_, _, _, _)
MatchAt(atoms, a, str, k) ==
    IF a > Len(atoms) THEN TRUE
    ELSE IF atoms[a].star
    THEN \E n \in 0 .. (Len(str) - k + 1) :
            /\ \A j \in k .. (k + n - 1) : AtomAccepts(atoms[a], str[j])
            /\ MatchAt(atoms, a + 1, str, k + n)
    ELSE /\ k <= Len(str)
         /\ AtomAccepts(atoms[a], str[k])
         /\ MatchAt(atoms, a + 1, str, k + 1)

\* item.match(expression): the expression matches somewhere in str
RegexMatches(atoms, str) == \E k \in 1 .. (Len(str) + 1) : MatchAt(atoms, 1, str, k)

Terms == UNION {[1 .. n -> {"a", ".", "*", "(", "\\"}] : n \in 0 .. MaxTerm}
LogItems == {<<"a", "a">>, <<".", "a">>, <<"a", "*">>, <<"\\", "a">>, <<"(">>}
Logs == UNION {[1 .. n -> LogItems] : n \in 0 .. MaxLog}

ErrSyntax == <<"SyntaxError: Invalid regular expression">>
ErrAssert == <<"AssertionError">>

\* the expression is built for every entry, so a term that does not compile
\* throws at the first entry; the entries that match are counted
LogCount(logItems, term, iterations) ==
    LET compiled == Compile(Escape(term), 1)
        messages == SelectSeq(logItems, LAMBDA item : RegexMatches(compiled.atoms, item))
    IN  cmdCall' = [op |-> "logCount", log |-> logItems, term |-> term,
                    iterations |-> iterations,
                    result |-> IF logItems # <<>> /\ ~compiled.ok THEN Throw(ErrSyntax)
                               ELSE IF Len(messages) = iterations THEN Ok(Undefined)
                               ELSE Throw(ErrAssert)]

\* the caller takes the answer of the command
CmdReturn ==
    /\ cmdCall.op # "none"
    /\ cmdCall' = NoCmd

NextCommands ==
    \/ /\ cmdCall.op = "none"
       /\ \E t \in Texts, o \in PreserveArgs, pn \in SessionPlatforms, v \in AndroidVersions :
             ElementText(t, o, pn, v)
       /\ UNCHANGED <<deviceVars, imgVars, appVars>>
    \/ /\ cmdCall.op = "none"
       /\ \E t \in Texts, o \in PreserveArgs, pn \in SessionPlatforms, v \in AndroidVersions :
             ElementsText(t, o, pn, v)
       /\ UNCHANGED <<deviceVars, imgVars, appVars>>
    \/ /\ cmdCall.op = "none"
       /\ \E t \in Texts, o \in PreserveArgs, pn \in SessionPlatforms, v \in AndroidVersions :
             WaitForElementText(t, o, pn, v)
       /\ UNCHANGED <<deviceVars, imgVars, appVars>>
    \/ /\ cmdCall.op = "none"
       /\ \E l \in Logs, t \in Terms, n \in 0 .. MaxLog : LogCount(l, t, n)
       /\ UNCHANGED <<deviceVars, imgVars, appVars>>
    \/ CmdReturn /\ UNCHANGED <<deviceVars, imgVars, appVars>>

SpecCommands == Init /\ [][NextCommands]_vars

\* ------------------------------------------- commands that switch on the platform
\* the commands whose body is a switch over the platform of the session
PlatformCommands ==
    {"getText", "alertAccept", "enter", "backspace", "elementId", "elementsId",
     "waitForElementId", "elementXPath", "scrollUp", "scrollDown", "swipeLeft",
     "swipeRight"}

\* case 'iOS' of each switch: the driver commands it sends
IosSends(name) ==
    CASE name = "getText" -> <<"getAttribute value">>
      [] name = "alertAccept" -> <<"elementText", "click", "sleep">>
      [] name = "enter" -> <<"elementText", "click">>
      [] name = "backspace" -> <<"elementByXPath", "click">>
      [] name = "elementId" -> <<"elementById">>
      [] name = "elementsId" -> <<"elementsById">>
      [] name = "waitForElementId" -> <<"waitForElementById">>
      [] name = "elementXPath" -> <<"elementByXPath">>
      [] name \in {"scrollUp", "scrollDown"} -> <<"execute mobile: scroll">>
      [] name \in {"swipeLeft", "swipeRight"} -> <<"execute mobile: swipe">>

\* case 'Android' of each switch; found: elementsText('OK') returned an element
AndroidSends(name, found) ==
    CASE name = "getText" -> <<"getAttribute text">>
      [] name = "alertAccept" ->
            IF found THEN <<"elementsText", "elementText", "click", "sleep">>
            ELSE <<"elementsText", "back", "sleep">>
      [] name = "enter" -> <<"pressKeycode">>
      [] name = "backspace" -> <<"pressKeycode">>
      [] name = "elementId" -> <<"elementByAccessibilityId">>
      [] name = "elementsId" -> <<"elementsByAccessibilityId">>
      [] name = "waitForElementId" -> <<"waitForElementByAccessibilityId">>
      [] name = "elementXPath" -> <<"elementByXPath">>
      [] name \in {"scrollUp", "scrollDown", "swipeLeft", "swipeRight"} ->
            <<"performTouchAction">>

\* variant: a default branch that takes the Android case
CommandSends_defaultAndroid(name, platformName, found) ==
    IF platformName = "iOS" THEN IosSends(name) ELSE AndroidSends(name, found)

\* switch (platform): two cases and no default
CommandSends(name, platformName, found) ==
    IF platformName = "iOS" THEN IosSends(name)
    ELSE IF platformName = "Android" THEN AndroidSends(name, found)
    ELSE <<>>

\* one call of a platform-switching command: driver.getPlatform() is asked
\* first, the scroll and swipe commands then read the bounds of the element,
\* and the switch runs; a call whose switch takes no case resolves undefined
PlatformCommand(name, platformName, found) ==
    LET isGesture == name \in {"scrollUp", "scrollDown", "swipeLeft", "swipeRight"}
        reads == IF isGesture THEN <<"getPlatform", "getSize", "getLocation">>
                 ELSE <<"getPlatform">>
        sends == CommandSends(name, platformName, found)
    IN  cmdCall' = [op |-> name, platformName |-> platformName,
                    found |-> (found /\ name = "alertAccept" /\ platformName = "Android"),
                    sent |-> reads \o sends,
                    result |-> IF sends = <<>> \/ isGesture THEN Ok(Undefined)
                               ELSE Ok("answer")]

NextImage ==
    \/ /\ img.pc = "idle" /\ cmdCall.op = "none"
       /\ \E f \in RefFiles, o \in ImgOpts, pn \in SessionPlatforms, b \in DriverBounds,
             io \in {"ok", "driver", "ensureDir", "write"}, fl \in BOOLEAN :
             ScreenshotTest(f, <<"proj">>, o, pn, b.win, b.status, b.decor, "shot1", io, fl)
       /\ UNCHANGED <<deviceVars, appVars, cmdCall>>
    \/ /\ img.pc = "idle" /\ cmdCall.op = "none"
       /\ \E f \in RefFiles, o \in ImgOpts,
             io \in {"ok", "driver", "ensureDir", "write"}, fl \in BOOLEAN :
             FullScreenshotTest(f, <<"proj">>, o, "shot1", io, fl)
       /\ UNCHANGED <<deviceVars, appVars, cmdCall>>
    \/ (\E ok \in BOOLEAN : CropCompletes(ok)) /\ UNCHANGED <<deviceVars, appVars, cmdCall>>
    \/ StrayCropCompletes /\ UNCHANGED <<deviceVars, appVars, cmdCall>>
    \/ /\ img.pc = "comparing" /\ \E m \in {0, 5, 10, 15, 20, 30, 35} : CompareCompletes(m)
       /\ UNCHANGED <<deviceVars, appVars, cmdCall>>
    \/ ImgReturn /\ UNCHANGED <<deviceVars, appVars, cmdCall>>
    \/ /\ img.pc = "idle" /\ cmdCall.op = "none"
       /\ \E name \in PlatformCommands, pn \in SessionPlatforms, found \in BOOLEAN :
             PlatformCommand(name, pn, found)
       /\ UNCHANGED <<deviceVars, appVars, imgVars>>
    \/ CmdReturn /\ UNCHANGED <<deviceVars, appVars, imgVars>>

SpecImage == Init /\ [][NextImage]_vars

\* ------------------------------------------------------ screenshot claims
ProcessImgCalled == img.pc # "idle" /\ img.events # <<>>
CompareReturned == img.pc = "done" /\ IsIn("compareDone", img.events)

\* C11: in non-overwrite mode processImg deletes the candidate file exactly
\* when the comparison passes, that is when the mismatch is at most the
\* threshold compImg uses; when it fails the candidate is still there and the
\* threshold error is raised.
C11_CandidateDeletedIffPass ==
    (CompareReturned /\ ~img.overwrite) =>
        /\ img.target = CandidatePath(img.file, img.modRoot)
        /\ (~files[img.target].exists) <=> (img.mismatch <= img.threshold)
        /\ (img.mismatch <= img.threshold) => img.result = Ok(Undefined)
        /\ (img.mismatch > img.threshold) =>
               /\ files[img.target].exists
               /\ img.result = Throw(ErrThreshold(img.threshold, img.mismatch))
C11_Witness ==
    /\ CompareReturned /\ ~img.overwrite
    /\ img.mismatch = img.threshold
    /\ ~files[img.target].exists

\* C12: in overwrite mode processImg writes the screenshot to the reference
\* path and crops it there, never calls the comparison, never deletes a file,
\* and succeeds whenever the write and the crop succeed.
C12_OverwriteOnlyRewritesReference ==
    (ProcessImgCalled /\ img.overwrite) =>
        /\ img.target = img.file
        /\ ~IsIn("compareCall", img.events)
        /\ ~IsIn("unlink", img.events)
        /\ \A p \in AllPaths : img.before[p].exists => files[p].exists
        /\ (/\ img.pc = "done"
            /\ IsIn("write", img.events)
            /\ img.result # Throw(ErrIo("writeFileSync"))
            /\ img.result # Throw(ErrIo("pngcrop.crop"))) =>
               /\ img.result = Ok(Undefined)
               /\ files[img.file] = Image(img.screenshot, img.dimensions)
C12_Witness ==
    /\ ProcessImgCalled /\ img.overwrite /\ img.pc = "done"
    /\ img.dimensions.given
    /\ IsIn("cropDone", img.events)
    /\ img.result = Ok(Undefined)
    /\ files[img.file] = Image("shot1", img.dimensions)

\* C13: the crop is always completed before the comparison begins, for every
\* call, calls without a crop region included.
C13_CropDoneBeforeCompare ==
    (ProcessImgCalled /\ img.pc = "comparing") => ~stray

\* C14: cropImg with no region does not call the crop utility.
C14_NoRegionNoCropCall ==
    (ProcessImgCalled /\ ~img.dimensions.given) => ~IsIn("cropCall", img.events)

\* C15: the threshold the comparison uses is the one the caller passed, for
\* every value from 0 up, and the default of the test only when none was
\* passed.
C15_CallerThresholdUsed ==
    (ProcessImgCalled /\ img.threshold # -1) =>
        img.threshold = (IF img.opts.thresh.given THEN img.opts.thresh.val
                         ELSE ScreenshotDefault)
\* ---------------------------------------------------- Appium_Helper claims
OpenSessions == {d \in DriverIds : sessions[d].state = "open"}
RunningServers == {x \in ServerIds : servers[x].state = "running"}
StepNames == [i \in DOMAIN appCall.log |-> appCall.log[i][1]]
StepRank(n) ==
    CASE n = "sessionCapabilities" -> 1
      [] n = "closeApp" -> 2
      [] n = "removeApp" -> 3
      [] n = "quit" -> 4
      [] OTHER -> 0

\* C16: after any sequence of startClient and stopClient calls at most one
\* WebDriver session is open, and every session that was started and is not
\* the one global.driver refers to has been quit.
C16_AtMostOneSession ==
    /\ Cardinality(OpenSessions) <= 1
    /\ \A d \in OpenSessions : globals.driver = d

\* C17: stopClient with a current client issues sessionCapabilities, closeApp,
\* removeApp and quit in that order, removeApp exactly when softStop is false
\* and the platform is iOS or Android; global.driver and global.webdriver are
\* cleared only once quit has succeeded; without a current client stopClient
\* issues no driver call.
C17_StopClientOrder ==
    appCall.op = "stopClient" =>
        IF appCall.driver = Unset
        THEN /\ appCall.before.driver = Unset
             /\ appCall.log = <<>>
             /\ globals = appCall.before
        ELSE LET names == StepNames
                 platformName == sessions[appCall.driver].caps.platformName
                 wanted == ~appCall.softStop /\ platformName \in {"iOS", "Android"}
                 quitDone == appCall.result.status = "ok"
             IN  /\ appCall.before.driver = appCall.driver
                 /\ names # <<>> /\ names[1] = "sessionCapabilities"
                 /\ Len(names) >= 2 => names[2] = "closeApp"
                 /\ \A i \in DOMAIN names : StepRank(names[i]) > 0
                 /\ \A i, j \in DOMAIN names : i < j => StepRank(names[i]) < StepRank(names[j])
                 /\ IsIn("removeApp", names) => wanted
                 /\ IsIn("quit", names) => (IsIn("removeApp", names) <=> wanted)
                 /\ quitDone => names[Len(names)] = "quit"
                 /\ quitDone <=> globals = NoGlobals
                 /\ quitDone <=> sessions[appCall.driver].state = "quit"
                 /\ ~quitDone => globals = appCall.before
C17_Witness ==
    /\ appCall.op = "stopClient" /\ appCall.driver # Unset
    /\ ~appCall.softStop
    /\ sessions[appCall.driver].caps.platformName = "iOS"
    /\ appCall.log = <<<<"sessionCapabilities">>, <<"closeApp">>,
                       <<"removeApp", "com.example.ios">>, <<"quit">>>>
    /\ globals = NoGlobals

\* C18: Appium_Helper.server is recorded exactly when a server started by
\* runAppium has not been closed yet, and no started server is left running
\* without being the recorded one.
C18_RecordedIffRunning ==
    /\ (helper.server # Unset) <=> (RunningServers # {})
    /\ \A x \in RunningServers : helper.server = x
\* ---------------------------------------------------- text command claims
TextCalled == cmdCall.op \in {"elementText", "elementsText", "waitForElementText"}
\* position i of str lies in the same run of non-blank characters as an
\* earlier letter
AfterLetter(str, i) ==
    /\ str[i] # " "
    /\ \E j \in 1 .. (i - 1) :
          IsWordChar(str[j]) /\ \A k \in j .. i : str[k] # " "
\* every word starts with a capital and goes on in lower case
IsTitleCaseOf(out, str) ==
    /\ Len(out) = Len(str)
    /\ \A i \in DOMAIN str :
          out[i] = IF AfterLetter(str, i) THEN ToLowerChar(str[i])
                   ELSE ToUpperChar(str[i])
VersionFrom7(v) == v[1] >= 7
\* the text the last command put into its selector or id lookup
SentText ==
    IF cmdCall.platformName = "Android"
    THEN SubSeq(cmdCall.sent.arg, 2, Len(cmdCall.sent.arg) - 1)
    ELSE cmdCall.sent.arg

\* C19: on Android with preserve false the three text commands look for the
\* title-cased text when the platform version is below 7.0 and for the
\* upper-cased text from 7.0 on; with preserve true, and on iOS, they look for
\* the text as given; the three commands send the same text for the same
\* input.
C19_TextNormalization ==
    (TextCalled /\ cmdCall.platformName \in {"iOS", "Android"}) =>
        /\ cmdCall.sent.cmd # "none"
        /\ (cmdCall.platformName = "iOS" \/ PreserveOf(cmdCall.preserve)) =>
               SentText = cmdCall.text
        /\ (cmdCall.platformName = "Android" /\ ~PreserveOf(cmdCall.preserve)) =>
               IF VersionFrom7(cmdCall.version)
               THEN SentText = ToUpperCase(cmdCall.text)
               ELSE IsTitleCaseOf(SentText, cmdCall.text)
        /\ \A n \in {"elementText", "elementsText", "waitForElementText"} :
              TextSend(n, cmdCall.text, PreserveOf(cmdCall.preserve),
                       cmdCall.platformName, cmdCall.version).arg = cmdCall.sent.arg
C19_Witness ==
    /\ cmdCall.op = "waitForElementText"
    /\ cmdCall.platformName = "Android"
    /\ ~PreserveOf(cmdCall.preserve)
    /\ cmdCall.version = <<6, 0, 1>>
    /\ cmdCall.text = <<"B", "B", "-">>
    /\ SentText = <<"B", "b", "-">>

\* ----------------------------------------------------- log command claims
\* t occurs in str as a plain substring
Contains(str, t) ==
    \E k \in 1 .. (Len(str) - Len(t) + 1) : SubSeq(str, k, k + Len(t) - 1) = t

\* C20: logCount takes the search term literally: the escaped term compiles
\* and matches a text exactly when the text contains the term as a plain
\* substring, so logCount passes exactly when the number of entries
\* containing the search string equals the expected count.
C20_TermsAreLiteral ==
    (cmdCall.op = "logCount") =>
        LET compiled == Compile(Escape(cmdCall.term), 1)
        IN  /\ compiled.ok
            /\ \A str \in LogItems :
                  RegexMatches(compiled.atoms, str) <=> Contains(str, cmdCall.term)
            /\ (cmdCall.result = Ok(Undefined)) <=>
                  (Cardinality({i \in DOMAIN cmdCall.log : Contains(cmdCall.log[i], cmdCall.term)})
                     = cmdCall.iterations)
C20_Witness ==
    /\ cmdCall.op = "logCount"
    /\ cmdCall.term = <<".", "a">>
    /\ cmdCall.log = <<<<"a", "a">>, <<".", "a">>>>
    /\ cmdCall.iterations = 1
    /\ cmdCall.result = Ok(Undefined)

\* C21: the crop region screenshotTest hands to processImg is, on iOS, twice
\* the application frame's height and width and twice the status bar's height
\* as top; on Android with a decor_content_parent element that element's
\* height, width and y as they are; on Android without it, and in
\* fullScreenshotTest, no region.
C21_CropRegion ==
    ProcessImgCalled =>
        IF img.op = "fullScreenshotTest" THEN ~img.dimensions.given
        ELSE IF img.session.platformName = "iOS"
        THEN /\ img.dimensions.given
             /\ img.dimensions.height = 2 * img.session.win.height
             /\ img.dimensions.width = 2 * img.session.win.width
             /\ img.dimensions.top = 2 * img.session.status.height
        ELSE IF img.session.platformName = "Android" /\ img.session.decor.found
        THEN /\ img.dimensions.given
             /\ img.dimensions.height = img.session.decor.height
             /\ img.dimensions.width = img.session.decor.width
             /\ img.dimensions.top = img.session.decor.y
        ELSE ~img.dimensions.given
C21_Witness ==
    /\ ProcessImgCalled /\ img.op = "screenshotTest"
    /\ img.session.platformName = "iOS"
    /\ img.session.win = [height |-> 8, width |-> 4]
    /\ img.dimensions = Region(16, 8, 4)
    /\ IsIn("cropDone", img.events)
    /\ files[img.target].crop = Region(16, 8, 4)

\* ------------------------------------------------------- poll order claims
ShutdownsIssued == Cardinality({i \in DOMAIN log : log[i][1] = "xcrun simctl shutdown"})
PollStarted == poll.outcome # "none"

\* C22: a killSim call issues the shutdown command once, before any state
\* check; no state check is made before the initial wait timer has fired, and
\* the checks of a poll follow one another, one per interval tick, each run to
\* its end before the next.
C22_ShutdownThenWaitThenChecks ==
    KillSimCalled =>
        /\ ShutdownsIssued <= 1
        /\ PollStarted => (ShutdownsIssued = 1 /\ log[2][1] = "xcrun simctl shutdown")
        /\ poll.timeout => (poll.checks = 0 /\ pc = "initialWait")
        /\ poll.checks > 0 =>
              /\ PollStarted /\ ~poll.timeout
              /\ poll.firstCheckAt >= args.initialWait
              /\ poll.elapsed = args.initialWait + poll.checks * args.intervalWait
        /\ poll.tiInfoRuns = poll.checks
C22_Witness ==
    /\ KillSimCalled /\ pc = "polling"
    /\ poll.checks = 3
    /\ args.initialWait = DefaultInitialWait
    /\ ShutdownsIssued = 1

\* C24: a shutdown poll never makes more than 20 state checks, and once it
\* has settled its interval timer is cancelled: no timer is armed, so no
\* further check is made and the outcome stays.
C24_AtMostTwentyChecks ==
    KillSimCalled =>
        /\ poll.checks <= MaxAttempts
        /\ poll.outcome \in {"resolved", "rejected"} => (~poll.interval /\ ~poll.timeout)

\* the driver commands a call may send without looking up an element, pressing
\* a key, clicking, touching or taking a screenshot
PassiveCommands == {"sleep", "getPlatform", "getSize", "getLocation"}
UnsupportedPlatform(platformName) == platformName \notin {"iOS", "Android"}

\* C23: on a session whose platform is neither iOS nor Android a
\* platform-switching command sends the driver nothing but the platform read
\* (and, for scroll and swipe, the size and location reads of the element) and
\* resolves with undefined; screenshotTest sends the sleep and the platform
\* read, touches no file and resolves with undefined; every call of these
\* commands, on any platform, asks the session for the platform itself.
C23_UnsupportedPlatformSendsNothing ==
    /\ cmdCall.op \in PlatformCommands =>
          /\ IsIn("getPlatform", cmdCall.sent)
          /\ UnsupportedPlatform(cmdCall.platformName) =>
                /\ \A i \in DOMAIN cmdCall.sent : cmdCall.sent[i] \in PassiveCommands
                /\ cmdCall.result = Ok(Undefined)
    /\ (img.op = "screenshotTest" /\ img.pc # "idle") =>
          /\ IsIn("getPlatform", img.sent)
          /\ (UnsupportedPlatform(img.session.platformName) /\ img.result.err # ErrIo("driver")) =>
                /\ img.sent = <<"sleep", "getPlatform">>
                /\ img.events = <<>>
                /\ files = img.before
                /\ img.result = Ok(Undefined)

C23_Witness ==
    /\ cmdCall.op = "swipeLeft"
    /\ cmdCall.platformName = "Windows"
    /\ cmdCall.sent = <<"getPlatform", "getSize", "getLocation">>
    /\ cmdCall.result = Ok(Undefined)


\* C25: global.driver and global.webdriver are set only while a session that
\* was initialised successfully exists: after a startClient whose driver.init
\* or driver.resetApp raised, neither global is set.
C25_GlobalsOnlyForInitialisedSession ==
    /\ globals.driver # Unset => sessions[globals.driver].state = "open"
    /\ (appCall.op = "startClient" /\ appCall.result.status = "error") =>
          globals = NoGlobals


ComparisonFailed == IsIn("compareDone", img.events) /\ img.result.status = "error"

\* C26: when a processImg call has returned, the candidate file of its
\* reference image exists exactly when the most recent non-overwrite call
\* failed its comparison: after a non-overwrite call it exists if and only if
\* that call's comparison failed, and an overwrite call leaves the candidate
\* path as it found it.
C26_CandidateExistsIffLastComparisonFailed ==
    (img.pc = "done" /\ img.events # <<>>) =>
        LET candidate == CandidatePath(img.file, img.modRoot)
        IN  IF img.overwrite
            THEN files[candidate] = img.before[candidate]
            ELSE files[candidate].exists <=> ComparisonFailed


\* C27: a processImg call in non-overwrite mode creates, changes or removes no
\* file but the candidate file, so the reference image stays as it was; a call
\* in overwrite mode changes no file but the reference path, so no candidate
\* file is created.
C27_OnlyTheTargetFileChanges ==
    ProcessImgCalled =>
        LET candidate == CandidatePath(img.file, img.modRoot)
        IN  /\ candidate # img.file
            /\ IF img.overwrite
               THEN \A p \in AllPaths \ {img.file} : files[p] = img.before[p]
               ELSE \A p \in AllPaths \ {candidate} : files[p] = img.before[p]
C27_Witness ==
    /\ ProcessImgCalled /\ ~img.overwrite /\ img.pc = "done"
    /\ img.before[CandidatePath(img.file, img.modRoot)].exists
    /\ ~files[CandidatePath(img.file, img.modRoot)].exists
    /\ files[img.file] = img.before[img.file]
    /\ files[img.file].exists

====
